---- MODULE Spec2Model ----
(***************************************************************************)
(* Model of memthol's "total size over time" aggregator                   *)
(* (libs/charts/src/chart/time/size.rs, struct TimeSize) together with    *)
(* the event source and the filter registry it pulls from.                *)
(*                                                                         *)
(* Times (time::SinceStart) are integer numbers of nanoseconds since the  *)
(* start of the run; dates (time::Date) are integer numbers of            *)
(* nanoseconds since the epoch.  Sizes are u32: a value v >= 0 is the     *)
(* number v, a value v < 0 is the wrapped number 2^32 + v that a build    *)
(* without overflow checks produces.                                       *)
(***************************************************************************)
EXTENDS Integers, Sequences, FiniteSets, TLC

(* ------------------------------ bounds -------------------------------- *)
\* Latest time the event source reaches in a long run, in which the
\* aggregator is called once and the source never fails.
MaxTime == 6
\* Latest time the event source reaches in a short run, in which the
\* aggregator is called several times and the source may fail.
ShortTime == 3
\* Number of failures of the event source in a short run.
MaxFails == 1
\* Number of death notifications with no uid in a short run.
MaxEmpties == 1
\* Number of allocations the event source produces.
MaxAllocs == 2
\* Largest allocation size.
MaxSize == 2
\* Display widths are 200, 400, ..., 200 * MaxWidthFactor pixels.
MaxWidthFactor == 2
\* Nanosecond part of the date at which the run starts.
StartNanos == 3
\* Number of new_points and reset calls made on the aggregator in a short
\* run.
MaxCalls == 2
\* Filter uids the client registry is exercised with.
MaxUid == 2
\* Longest list of label specifications, longest list of labels, longest
\* text given to LabelSpec::new.
MaxSpecs == 3
MaxLabels == 3
MaxText == 5

(* ------------------------- program constants -------------------------- *)
\* const INIT_SIZE_VALUE: u32 = 0
INIT_SIZE_VALUE == 0
\* resolution.width / 200
PxPerBucket == 200
\* nanoseconds in one second (time::Date::timestamp / from_timestamp)
NanosPerSec == 10 ^ 9

Widths == {PxPerBucket * k : k \in 1..MaxWidthFactor}
\* Display widths of less than one bucket.
NarrowWidths == {1, PxPerBucket - 1}

(* ------------------------------- lines -------------------------------- *)
\* uid::Line
Everything == [tag |-> "Everything", uid |-> 0]
CatchAll == [tag |-> "CatchAll", uid |-> 0]
Filter(uid) == [tag |-> "Filter", uid |-> uid]

(* -------------------------- filter registry --------------------------- *)
\* SizeFilter (spec 4.3): a comparison or an inclusive range.
SizeApply(f, size) ==
    IF f.kind = "Cmp"
    THEN CASE f.op = "Lt" -> size < f.val
           [] f.op = "Le" -> size <= f.val
           [] f.op = "Eq" -> size = f.val
           [] f.op = "Ge" -> size >= f.val
           [] f.op = "Gt" -> size > f.val
    ELSE f.lb <= size /\ size <= f.ub

\* The filters registered for the chart, in registration order.  The set
\* of filters is fixed for the life of an aggregator (an edit forces a
\* reset and a replay).
LineFilters ==
    << [uid |-> 1, subs |-> << [kind |-> "Cmp", op |-> "Ge", val |-> 2] >>] >>

\* A filter matches when all its sub-filters hold.
FilterApply(filter, alloc) ==
    \A i \in 1..Len(filter.subs) : SizeApply(filter.subs[i], alloc.size)

\* Filters::find_match: first filter, in registration order, that
\* matches; the empty set is None.
find_match(time, alloc) ==
    LET hits == {i \in 1..Len(LineFilters) : FilterApply(LineFilters[i], alloc)}
    IN  IF hits = {} THEN {}
        ELSE {LineFilters[CHOOSE i \in hits : \A j \in hits : i <= j].uid}

\* Filters::find_dead_match: same iteration over the static attributes
\* of the dead allocation.
find_dead_match(alloc) ==
    LET hits == {i \in 1..Len(LineFilters) : FilterApply(LineFilters[i], alloc)}
    IN  IF hits = {} THEN {}
        ELSE {LineFilters[CHOOSE i \in hits : \A j \in hits : i <= j].uid}

\* Line an optional filter uid stands for.
LineOf(opt) == IF opt = {} THEN CatchAll ELSE Filter(CHOOSE u \in opt : TRUE)

\* PointVal::new(default, filters): one entry for the catch-all, one for
\* everything, one per filter.
PointValNew(default) ==
    [l \in {CatchAll, Everything} \cup {Filter(LineFilters[i].uid) : i \in 1..Len(LineFilters)}
        |-> default]

\* PointVal::get_mut_or(uid, default), as a read.
GetOr(pv, line, default) == IF line \in DOMAIN pv THEN pv[line] ELSE default

(* -------------------------------- time -------------------------------- *)
\* time::Date::timestamp: (secs, nanos).
Timestamp(date) == <<date \div NanosPerSec, date % NanosPerSec>>
\* time::Date::from_timestamp(secs, nanos).
FromTimestamp(secs, nanos) == secs * NanosPerSec + nanos
\* data.start_time()
start_time == FromTimestamp(0, StartNanos)
\* as_date = |duration| start_time.copy_add(duration)
as_date(duration) == start_time + duration

(* ------------------------------- state -------------------------------- *)
VARIABLES
    \* event source (data::Data)
    allocs,          \* sequence of allocations; the uid is the index
    empty_tods,      \* times of death notifications that carry no uid
    current_time,    \* data.current_time()
    \* TimeSize
    timestamp,       \* time of the last allocation registered (cursor)
    size,            \* PointVal<u32>: current total size per line
    map,             \* BTMap<Date, PointVal<(u32, u32)>>: pending buckets
    last_time_stamp, \* Option<SinceStart>: {} is None, {t} is Some(t)
    \* build and results
    debug,           \* TRUE: debug assertions and overflow checks are on
    status,          \* outcome of the last call on the aggregator
    points,          \* points returned by the last call
    \* history of the calls, for the properties
    hist,
    \* the kind of run explored: how far the source goes, how many calls
    \* the aggregator gets, how often the source fails
    plan

src_vars == <<allocs, empty_tods, current_time>>
agg_vars == <<timestamp, size, map, last_time_stamp>>

VARIABLES
    \* client-side Filters (the registry of the filters the user edits)
    catch_all,       \* FilterSpec of the catch-all
    filters,         \* Map<FilterUid, Filter>
    deleted,         \* a filter was removed and the server was not notified
    to_model,        \* messages the last operation emitted on to_model
    res,             \* the last operation, its uid argument and its result
    \* label filters
    label_in,        \* the call made on a label filter or label spec
    label_out,       \* what the call returned
    \* footers of the client
    active,          \* footer.rs Footer.active: {} is None, {tab} is Some(tab)
    tabs             \* footer/mod.rs Footer.tabs: tab -> whether it is active

footer_vars == <<active, tabs>>
client_vars == <<catch_all, filters, deleted, to_model, res>>
label_vars == <<label_in, label_out>>
timesize_vars == <<allocs, empty_tods, current_time, timestamp, size, map,
                   last_time_stamp, debug, status, points, hist, plan>>
vars == <<timesize_vars, client_vars, label_vars, footer_vars>>

NoTod == 0 - 1
Uids == 1..Len(allocs)
Min(a, b) == IF a <= b THEN a ELSE b

EmptyMap == [d \in {} |-> PointValNew(<<INIT_SIZE_VALUE, INIT_SIZE_VALUE>>)]

\* History kept since the aggregator was created or reset.
HistInit ==
    [ calls       |-> 0,              \* new_points and reset calls so far
      pre_size    |-> PointValNew(INIT_SIZE_VALUE), \* size before the last new_points
      init        |-> FALSE,          \* arguments of the last new_points
      width       |-> PxPerBucket,
      ct          |-> 0,              \* current time the last get_allocs read
      spacing     |-> 0,              \* its min_time_spacing
      batch_new   |-> {},             \* uids whose birth it accumulated
      batch_dead  |-> {},             \* uids whose death it accumulated
      birth_date  |-> [u \in 1..MaxAllocs |-> {}], \* bucket of the birth
      death_date  |-> [u \in 1..MaxAllocs |-> {}], \* bucket of the death
      uncovered   |-> {},             \* deaths whose line had not received the size
      seen_new    |-> [u \in 1..MaxAllocs |-> 0],  \* accumulations, capped at 2
      seen_dead   |-> [u \in 1..MaxAllocs |-> 0],
      pulled_time |-> 0,              \* current time at the last successful pull
      fails       |-> 0,              \* new_points calls that returned an error
      failed      |-> FALSE,          \* one of them since the creation or reset
      pre_empty   |-> TRUE,           \* map was empty when the last call started
      dates       |-> {},             \* dates of the buckets of the last get_allocs
      total_added |-> PointValNew(INIT_SIZE_VALUE), \* added sizes flushed so far
      underflow   |-> FALSE,          \* some flush subtracted below zero
      expect      |-> {} ]            \* size a retry should end with

Plans ==
    { [horizon |-> MaxTime, calls |-> 1, fails |-> 0, empties |-> 0],
      [horizon |-> ShortTime, calls |-> MaxCalls, fails |-> MaxFails,
       empties |-> MaxEmpties] }

\* FilterSpec: a name, an edited flag and the optional uid of its filter
\* ({} is None, for the catch-all, and {u} is Some(u)).  The color plays
\* no part in the registry's operations.
FilterSpecOf(uid, name, edited) == [uid |-> uid, name |-> name, edited |-> edited]

\* FilterSpec::new_catch_all()
new_catch_all == FilterSpecOf({}, "catch all", FALSE)

\* Filters::new(to_model)
FiltersNew ==
    /\ catch_all = new_catch_all
    /\ filters = [u \in {} |-> new_catch_all]
    /\ deleted = FALSE
    /\ to_model = << >>
    /\ res = [op |-> "new", uid |-> {}, ok |-> TRUE]

\* A call on a label filter or a label specification: LabelFilter::apply
\* of the filter (kind, specs) to labels, or LabelSpec::new(text).
LabelCall(op, kind, specs, labels, text) ==
    [op |-> op, kind |-> kind, specs |-> specs, labels |-> labels, text |-> text,
     nu_kind |-> kind, index |-> 0, spec |-> [tag |-> "Anything", text |-> << >>]]

\* LabelSpec; the text is the value, or the source of the regex.
Anything == [tag |-> "Anything", text |-> << >>]

\* What a call returned: a boolean, Ok(spec), an error, or a panic.
LabelRet(tag, bool, spec) ==
    [tag |-> tag, bool |-> bool, spec |-> spec, kind |-> "Contain", specs |-> << >>]
\* What a call on a filter returned (Ok(bool), an error or a panic) and
\* the filter (kind, specs) it left.
FilterRet(tag, bool, kind, specs) ==
    [tag |-> tag, bool |-> bool, spec |-> Anything, kind |-> kind, specs |-> specs]
NotReturned == LabelRet("none", FALSE, Anything)

\* No call on a label filter.
NoLabelCall ==
    /\ label_in = LabelCall("none", "Contain", << >>, << >>, << >>)
    /\ label_out = NotReturned

\* The source with no event and the aggregator TimeSize::default(filters)
\* makes.
TimeSizeDefault ==
    /\ plan \in Plans
    /\ allocs = << >>
    /\ empty_tods = {}
    /\ current_time = 0
    /\ timestamp = 0
    /\ size = PointValNew(INIT_SIZE_VALUE)
    /\ map = EmptyMap
    /\ last_time_stamp = {}
    /\ debug \in BOOLEAN
    /\ status = "new"
    /\ points = << >>
    /\ hist = HistInit

\* footer.rs FooterTab: Normal(Info), with no line, or Filter(line).
InfoTab == [tag |-> "Normal", line |-> {}]
FilterTab(line) == [tag |-> "Filter", line |-> {line}]

\* footer/mod.rs FooterTab, in the order of the map: Info, Filters.
TabInfo == [tag |-> "Info", line |-> {}]
TabFilters == [tag |-> "Filters", line |-> {}]

\* Footer::new() of footer.rs and Footer::new(callback) of footer/mod.rs.
FooterNew ==
    /\ active = {}
    /\ tabs = [t \in {TabInfo, TabFilters} |-> FALSE]

Init == TimeSizeDefault /\ FiltersNew /\ NoLabelCall /\ FooterNew

(* ---------------------------- event source ---------------------------- *)
\* The source is append-only and its current time never decreases: every
\* new event is later than the current time.  A source change ends the
\* "same events" window of a pending retry.
SrcHist == [hist EXCEPT !.expect = {}]

\* A new allocation is registered.
SrcBirth(sz) ==
    /\ current_time < plan.horizon
    /\ Len(allocs) < MaxAllocs
    /\ current_time' = current_time + 1
    /\ allocs' = Append(allocs, [size |-> sz, toc |-> current_time + 1, tod |-> NoTod])
    /\ hist' = SrcHist
    /\ UNCHANGED <<empty_tods, agg_vars, debug, status, points, plan, client_vars, label_vars, footer_vars>>

\* A death notification for the live allocations of uids, possibly none.
SrcDeath(uids) ==
    /\ current_time < plan.horizon
    /\ \A u \in uids : allocs[u].tod = NoTod
    /\ uids = {} => Cardinality(empty_tods) < plan.empties
    /\ current_time' = current_time + 1
    /\ allocs' = IF uids = {} THEN allocs
                 ELSE [u \in Uids |->
                         IF u \in uids THEN [allocs[u] EXCEPT !.tod = current_time + 1]
                         ELSE allocs[u]]
    /\ empty_tods' = IF uids = {} THEN empty_tods \cup {current_time + 1} ELSE empty_tods
    /\ hist' = SrcHist
    /\ UNCHANGED <<agg_vars, debug, status, points, plan, client_vars, label_vars, footer_vars>>

\* Time passes with no event.
SrcTick ==
    /\ current_time < plan.horizon
    /\ current_time' = current_time + 1
    /\ hist' = SrcHist
    /\ UNCHANGED <<allocs, empty_tods, agg_vars, debug, status, points, plan, client_vars, label_vars, footer_vars>>

\* Data::iter_new_since(time): the allocations created after time, newest
\* first.
RECURSIVE NewestFirst(_)
NewestFirst(us) ==
    IF us = {} THEN << >>
    ELSE LET u == CHOOSE x \in us : \A y \in us :
                     \/ allocs[y].toc < allocs[x].toc
                     \/ (allocs[y].toc = allocs[x].toc /\ y <= x)
         IN  <<u>> \o NewestFirst(us \ {u})
iter_new_since(time) == NewestFirst({u \in Uids : allocs[u].toc > time})

\* Data::iter_dead_since(time): the death notifications (uids, tod) after
\* time, newest first.
RECURSIVE LatestFirst(_)
LatestFirst(ts) ==
    IF ts = {} THEN << >>
    ELSE LET t == CHOOSE x \in ts : \A y \in ts : y <= x
         IN  <<[tod |-> t, uids |-> {u \in Uids : allocs[u].tod = t}]>>
             \o LatestFirst(ts \ {t})
iter_dead_since(time) ==
    LatestFirst({t \in {allocs[u].tod : u \in Uids} \cup empty_tods : t > time})

(* ----------------------------- get_allocs ----------------------------- *)
\* The bucket is created with no line.
Entry_no_line(m, date) ==
    IF date \in DOMAIN m THEN m
    ELSE [d \in DOMAIN m \cup {date} |->
            IF d = date THEN [l \in {} |-> <<INIT_SIZE_VALUE, INIT_SIZE_VALUE>>] ELSE m[d]]

\* map!(entry map, with filters => at date): the bucket at date, created
\* with a (0, 0) delta for every line when absent.
Entry(m, date) ==
    IF date \in DOMAIN m THEN m
    ELSE [d \in DOMAIN m \cup {date} |->
            IF d = date THEN PointValNew(<<INIT_SIZE_VALUE, INIT_SIZE_VALUE>>) ELSE m[d]]

\* toc_point_val.get_mut_or(line, (0, 0)).0 += amount
AddAdded(pv, line, amount) ==
    [l \in DOMAIN pv \cup {line} |->
        LET old == GetOr(pv, l, <<INIT_SIZE_VALUE, INIT_SIZE_VALUE>>)
        IN  IF l = line THEN <<old[1] + amount, old[2]>> ELSE old]

\* The update reaches the catch-all line as well.
AddRemoved_and_catch_all(pv, line, amount) ==
    [l \in DOMAIN pv |->
        IF l \in {line, CatchAll} THEN <<pv[l][1], pv[l][2] + amount>> ELSE pv[l]]

\* toc_point_val.get_mut(line)?.1 += amount (the line is in the bucket)
AddRemoved(pv, line, amount) ==
    [l \in DOMAIN pv |-> IF l = line THEN <<pv[l][1], pv[l][2] + amount>> ELSE pv[l]]

\* min_time_spacing = current_time / (resolution.width / 200)
MinTimeSpacing(ct, width) == ct \div (width \div PxPerBucket)

\* The coalescing test inverted.
Adjust_inverted(lts, t, spacing) ==
    IF lts = {} THEN [at |-> t, lts |-> {t}]
    ELSE LET last == CHOOSE x \in lts : TRUE
         IN  IF last - t >= spacing THEN [at |-> last, lts |-> lts]
             ELSE [at |-> t, lts |-> {t}]

\* adjusted_toc / adjusted_tod: the date of the bucket for an event at
\* time t and the new value of last_time_stamp.
Adjust(lts, t, spacing) ==
    IF lts = {} THEN [at |-> t, lts |-> {t}]
    ELSE LET last == CHOOSE x \in lts : TRUE
         IN  IF last - t < spacing THEN [at |-> last, lts |-> lts]
             ELSE [at |-> t, lts |-> {t}]

\* The closure without the update of the everything line.
VisitNew_no_everything(st, u, ct, spacing) ==
    LET alloc == allocs[u]
        line  == LineOf(find_match(ct, alloc))
        adj   == Adjust(st.lts, alloc.toc, spacing)
        date  == as_date(adj.at)
        m1    == Entry(st.map, date)
        pv1   == AddAdded(m1[date], line, alloc.size)
    IN  [st EXCEPT !.map = [m1 EXCEPT ![date] = pv1],
                   !.lts = adj.lts,
                   !.new_stuff = TRUE,
                   !.births = st.births \cup {<<u, date>>}]

\* The closure of iter_new_since applied to allocation u.
VisitNew(st, u, ct, spacing) ==
    LET alloc == allocs[u]
        line  == LineOf(find_match(ct, alloc))
        adj   == Adjust(st.lts, alloc.toc, spacing)
        date  == as_date(adj.at)
        m1    == Entry(st.map, date)
        pv1   == AddAdded(m1[date], line, alloc.size)
        pv2   == AddAdded(pv1, Everything, alloc.size)
    IN  [st EXCEPT !.map = [m1 EXCEPT ![date] = pv2],
                   !.lts = adj.lts,
                   !.new_stuff = TRUE,
                   !.births = st.births \cup {<<u, date>>}]

\* The loop over the uids of one death notification.
RECURSIVE DeadLoop(_, _, _)
DeadLoop(m, uids, date) ==
    IF uids = {} THEN m
    ELSE LET u     == CHOOSE x \in uids : \A y \in uids : x <= y
             alloc == allocs[u]
             line  == LineOf(find_dead_match(alloc))
             m1    == Entry(m, date)
             pv1   == AddRemoved(m1[date], line, alloc.size)
             pv2   == AddRemoved(pv1, Everything, alloc.size)
         IN  DeadLoop([m1 EXCEPT ![date] = pv2], uids \ {u}, date)

\* The closure without the return on a notification with no uid.
VisitDead_counts_empty(st, note, spacing) ==
    LET adj  == Adjust(st.lts, note.tod, spacing)
        date == as_date(adj.at)
    IN  [st EXCEPT !.map = DeadLoop(st.map, note.uids, date),
                   !.lts = adj.lts,
                   !.new_stuff = TRUE,
                   !.deaths = st.deaths \cup {<<u, date>> : u \in note.uids}]

\* The closure of iter_dead_since applied to a notification (uids, tod).
VisitDead(st, note, spacing) ==
    IF note.uids = {} THEN st
    ELSE LET adj  == Adjust(st.lts, note.tod, spacing)
             date == as_date(adj.at)
         IN  [st EXCEPT !.map = DeadLoop(st.map, note.uids, date),
                        !.lts = adj.lts,
                        !.new_stuff = TRUE,
                        !.deaths = st.deaths \cup {<<u, date>> : u \in note.uids}]

RECURSIVE FoldNew(_, _, _, _)
FoldNew(st, todo, ct, spacing) ==
    IF todo = << >> THEN st
    ELSE FoldNew(VisitNew(st, Head(todo), ct, spacing), Tail(todo), ct, spacing)

RECURSIVE FoldDead(_, _, _)
FoldDead(st, todo, spacing) ==
    IF todo = << >> THEN st
    ELSE FoldDead(VisitDead(st, Head(todo), spacing), Tail(todo), spacing)

\* The coalescing cursor starts at the stream origin.
CursorAtStart_zero(ct) == {0}

\* *last_time_stamp = Some(data.current_time().clone()), before the
\* births and again before the deaths.
CursorAtStart(ct) == {ct}

\* The cursor moves whether or not an event was seen.
Advance_always(new_stuff, ct, time) == ct + 1

\* if new_stuff { self.timestamp = data.current_time() + 1ns }
Advance(new_stuff, ct, time) == IF new_stuff THEN ct + 1 ELSE time

\* Number of visits the source makes for a pull at cursor time.
Visits(time) == Len(iter_new_since(time)) + Len(iter_dead_since(time))

\* TimeSize::get_allocs(filters, init, resolution).  fail is "none" when
\* the source answers, "get" when data::get() or start_time() fails, and
\* "iter" when the iteration fails after k visits.  The result holds the
\* new fields of self, whether the call returned Ok, and the buckets the
\* events went to.
get_allocs(init, width, fail, k) ==
    LET ct      == current_time
        news    == iter_new_since(timestamp)
        deads   == iter_dead_since(timestamp)
        m0      == IF init THEN Entry(map, as_date(0)) ELSE map
        spacing == MinTimeSpacing(ct, width)
        st0     == [map |-> m0, lts |-> CursorAtStart(ct), new_stuff |-> FALSE,
                    births |-> {}, deaths |-> {}]
        nb      == IF fail = "iter" THEN Min(k, Len(news)) ELSE Len(news)
        st1     == FoldNew(st0, SubSeq(news, 1, nb), ct, spacing)
        nd      == IF fail = "iter" THEN k - Len(news) ELSE Len(deads)
        st2     == FoldDead([st1 EXCEPT !.lts = CursorAtStart(ct)],
                            SubSeq(deads, 1, nd), spacing)
    IN  IF fail = "get"
        THEN [ok |-> FALSE, timestamp |-> timestamp, map |-> map,
              last_time_stamp |-> last_time_stamp, births |-> {}, deaths |-> {}]
        ELSE IF fail = "iter" /\ k < Len(news)
        THEN [ok |-> FALSE, timestamp |-> timestamp, map |-> st1.map,
              last_time_stamp |-> st1.lts, births |-> st1.births, deaths |-> {}]
        ELSE IF fail = "iter"
        THEN [ok |-> FALSE, timestamp |-> timestamp, map |-> st2.map,
              last_time_stamp |-> st2.lts, births |-> st2.births, deaths |-> st2.deaths]
        ELSE [ok |-> TRUE,
              timestamp |-> Advance(st2.new_stuff, ct, timestamp),
              map |-> st2.map, last_time_stamp |-> st2.lts,
              births |-> st2.births, deaths |-> st2.deaths]

(* --------------------------- generate_points -------------------------- *)
\* (a + to_add) - to_sub on u32 leaves the range of u32.
Underflows(a, to_add, to_sub) == a + to_add >= 0 /\ a + to_add < to_sub

\* new_val = (*self.size.get_mut_or(uid, INIT_SIZE_VALUE) + to_add) - to_sub
NewVal(sz, line, delta) == (GetOr(sz, line, INIT_SIZE_VALUE) + delta[1]) - delta[2]

\* The loop of generate_points over the buckets in date order.  With
\* overflow checks (checked) the first underflow panics and ends the loop.
RECURSIVE PointsLoop(_, _, _)
PointsLoop(m, acc, checked) ==
    IF DOMAIN m = {} THEN acc
    ELSE LET time == CHOOSE d \in DOMAIN m : \A e \in DOMAIN m : d <= e
             pv   == m[time]
             under == \E l \in DOMAIN pv :
                         Underflows(GetOr(acc.size, l, INIT_SIZE_VALUE), pv[l][1], pv[l][2])
             point_val == [l \in DOMAIN pv |-> NewVal(acc.size, l, pv[l])]
             rest == [d \in DOMAIN m \ {time} |-> m[d]]
         IN  IF under /\ checked
             THEN [acc EXCEPT !.underflow = TRUE, !.panic = TRUE]
             ELSE PointsLoop(rest,
                             [size |-> point_val,
                              points |-> Append(acc.points, [key |-> time, vals |-> point_val]),
                              underflow |-> acc.underflow \/ under,
                              panic |-> FALSE],
                             checked)

\* Border points one nanosecond, not one second, away from the point.
BorderPoints_nanos(pts) ==
    IF Len(pts) = 1
    THEN LET before_vals == [l \in DOMAIN pts[1].vals |-> 0]
             ts == Timestamp(pts[1].key)
             before_key == FromTimestamp(ts[1], ts[2] - 1)
             after_key == FromTimestamp(ts[1], ts[2] + 1)
             before == [key |-> before_key, vals |-> before_vals]
             after == [before EXCEPT !.key = after_key]
         IN  <<before>> \o pts \o <<after>>
    ELSE pts

\* The two border points added around a lone point.
BorderPoints(pts) ==
    IF Len(pts) = 1
    THEN LET before_vals == [l \in DOMAIN pts[1].vals |-> 0]
             ts == Timestamp(pts[1].key)
             before_key == FromTimestamp(ts[1] - 1, ts[2])
             after_key == FromTimestamp(ts[1] + 1, ts[2])
             before == [key |-> before_key, vals |-> before_vals]
             after == [before EXCEPT !.key = after_key]
         IN  <<before>> \o pts \o <<after>>
    ELSE pts

\* A generate_points that iterates over self.map without taking it.
generate_points_keeps_map(m, sz, checked) ==
    LET r == PointsLoop(m, [size |-> sz, points |-> << >>,
                            underflow |-> FALSE, panic |-> FALSE], checked)
    IN  [size |-> r.size, underflow |-> r.underflow, panic |-> r.panic,
         points |-> IF r.panic THEN << >> ELSE BorderPoints(r.points),
         map |-> m]

\* TimeSize::generate_points on pending buckets m and current sizes sz:
\* the new self.size, the points returned, whether a subtraction
\* underflowed or panicked, and self.map, which mem::replace left empty.
generate_points(m, sz, checked) ==
    LET r == PointsLoop(m, [size |-> sz, points |-> << >>,
                            underflow |-> FALSE, panic |-> FALSE], checked)
    IN  [size |-> r.size, underflow |-> r.underflow, panic |-> r.panic,
         points |-> IF r.panic THEN << >> ELSE BorderPoints(r.points),
         map |-> EmptyMap]

(* ------------------------------ new_points ---------------------------- *)
Bump(f, us) == [u \in DOMAIN f |-> IF u \in us THEN Min(f[u] + 1, 2) ELSE f[u]]
Dated(f, pairs) ==
    [u \in DOMAIN f |-> IF \E p \in pairs : p[1] = u
                        THEN {(CHOOSE p \in pairs : p[1] = u)[2]} ELSE f[u]]

\* Sum of the added sizes of line in the buckets of m dated at most date.
RECURSIVE AddedUpTo(_, _, _)
AddedUpTo(m, line, date) ==
    IF DOMAIN m = {} THEN 0
    ELSE LET d == CHOOSE x \in DOMAIN m : TRUE
             rest == [e \in DOMAIN m \ {d} |-> m[e]]
         IN  (IF d <= date THEN GetOr(m[d], line, <<0, 0>>)[1] ELSE 0)
             + AddedUpTo(rest, line, date)

\* Date of the last bucket of m (the start date when m is empty).
Latest(m) == IF DOMAIN m = {} THEN start_time
             ELSE CHOOSE d \in DOMAIN m : \A e \in DOMAIN m : e <= d

\* History after a get_allocs with result r.
HistPull(r, init, width, fail) ==
    LET news  == {p[1] : p \in r.births}
        deads == {p[1] : p \in r.deaths}
        clean == generate_points(r.map, size, FALSE)
    IN  [hist EXCEPT
            !.calls = @ + 1,
            !.pre_size = size,
            !.init = init,
            !.width = width,
            !.ct = current_time,
            !.spacing = MinTimeSpacing(current_time, width),
            !.batch_new = news,
            !.batch_dead = deads,
            !.birth_date = Dated(@, r.births),
            !.death_date = Dated(@, r.deaths),
            !.uncovered = (@ \ deads) \cup
                {p[1] : p \in {q \in r.deaths :
                    LET line == LineOf(find_dead_match(allocs[q[1]]))
                    IN  hist.total_added[line] + AddedUpTo(r.map, line, q[2])
                            < allocs[q[1]].size}},
            !.seen_new = Bump(@, news),
            !.seen_dead = Bump(@, deads),
            !.pulled_time = IF r.ok THEN current_time ELSE @,
            !.fails = IF r.ok THEN @ ELSE @ + 1,
            !.failed = @ \/ ~r.ok,
            !.pre_empty = (DOMAIN map = {}),
            !.dates = DOMAIN r.map,
            !.total_added = IF r.ok
                            THEN [l \in DOMAIN @ |-> @[l] + AddedUpTo(r.map, l, Latest(r.map))]
                            ELSE @,
            !.underflow = @ \/ (r.ok /\ clean.underflow),
            !.expect = IF r.ok \/ @ # {} THEN @
                       ELSE LET full == get_allocs(init, width, "none", 0)
                            IN  {generate_points(full.map, size, FALSE).size}]

\* debug_assert!(self.map.is_empty()) fails in a debug build.
NewPointsAssertPanic ==
    /\ status # "panic"
    /\ hist.calls < plan.calls
    /\ debug /\ DOMAIN map # {}
    /\ status' = "panic"
    /\ points' = << >>
    /\ UNCHANGED <<src_vars, agg_vars, debug, hist, plan, client_vars, label_vars, footer_vars>>

\* resolution.width / 200 is zero and current_time / 0 panics, after the
\* bucket of the stream start was entered.
NewPointsDivideByZero(init, width) ==
    /\ status # "panic"
    /\ hist.calls < plan.calls
    /\ ~(debug /\ DOMAIN map # {})
    /\ width \div PxPerBucket = 0
    /\ map' = IF init THEN Entry(map, as_date(0)) ELSE map
    /\ status' = "panic"
    /\ points' = << >>
    /\ hist' = [hist EXCEPT !.width = width]
    /\ UNCHANGED <<src_vars, timestamp, size, last_time_stamp, debug, plan,
                   client_vars, label_vars, footer_vars>>

\* get_allocs returns an error: new_points returns it, generate_points
\* is not called.
NewPointsErr(init, width, fail, k) ==
    /\ status # "panic"
    /\ hist.calls < plan.calls
    /\ ~(debug /\ DOMAIN map # {})
    /\ fail # "none"
    /\ hist.fails < plan.fails
    /\ k <= Visits(timestamp)
    /\ LET r == get_allocs(init, width, fail, k)
       IN  /\ timestamp' = r.timestamp
           /\ map' = r.map
           /\ last_time_stamp' = r.last_time_stamp
           /\ hist' = HistPull(r, init, width, fail)
    /\ status' = "err"
    /\ points' = << >>
    /\ UNCHANGED <<src_vars, size, debug, plan, client_vars, label_vars, footer_vars>>

\* get_allocs returns Ok and generate_points runs; with overflow checks
\* an underflow panics.
NewPointsOk(init, width) ==
    /\ status # "panic"
    /\ hist.calls < plan.calls
    /\ ~(debug /\ DOMAIN map # {})
    /\ LET r == get_allocs(init, width, "none", 0)
           g == generate_points(r.map, size, debug)
       IN  /\ timestamp' = r.timestamp
           /\ map' = g.map
           /\ last_time_stamp' = r.last_time_stamp
           /\ size' = g.size
           /\ points' = g.points
           /\ status' = IF g.panic THEN "panic" ELSE "ok"
           /\ hist' = HistPull(r, init, width, "none")
    /\ UNCHANGED <<src_vars, debug, plan, client_vars, label_vars, footer_vars>>

\* TimeSize::new_points(filters, init, resolution)
NewPoints ==
    \/ NewPointsAssertPanic
    \/ \E init \in BOOLEAN, width \in NarrowWidths : NewPointsDivideByZero(init, width)
    \/ \E init \in BOOLEAN, width \in Widths :
          \/ NewPointsOk(init, width)
          \/ \E fail \in {"get", "iter"}, k \in 0..(2 * MaxAllocs + MaxEmpties + 1) :
                NewPointsErr(init, width, fail, k)

\* generate_points called again, with no get_allocs since the last
\* new_points returned.
GeneratePointsAgain ==
    /\ status \in {"ok", "again"}
    /\ LET g == generate_points(map, size, debug)
       IN  /\ map' = g.map
           /\ size' = g.size
           /\ points' = g.points
           /\ status' = IF g.panic THEN "panic" ELSE "again"
    /\ UNCHANGED <<src_vars, timestamp, last_time_stamp, debug, hist, plan, client_vars, label_vars, footer_vars>>

\* The reset leaves the pending buckets and the coalescing cursor.
Reset_keeps_pending ==
    /\ status # "panic"
    /\ hist.calls < plan.calls
    /\ timestamp' = 0
    /\ size' = PointValNew(INIT_SIZE_VALUE)
    /\ status' = "reset"
    /\ points' = << >>
    /\ hist' = [HistInit EXCEPT !.calls = hist.calls + 1, !.fails = hist.fails]
    /\ UNCHANGED <<src_vars, map, last_time_stamp, debug, plan, client_vars, label_vars, footer_vars>>

\* TimeSize::reset(filters)
Reset ==
    /\ status # "panic"
    /\ hist.calls < plan.calls
    /\ timestamp' = 0
    /\ last_time_stamp' = {}
    /\ size' = PointValNew(INIT_SIZE_VALUE)
    /\ map' = EmptyMap
    /\ status' = "reset"
    /\ points' = << >>
    /\ hist' = [HistInit EXCEPT !.calls = hist.calls + 1, !.fails = hist.fails]
    /\ UNCHANGED <<src_vars, debug, plan, client_vars, label_vars, footer_vars>>

Source ==
    \/ \E sz \in 1..MaxSize : SrcBirth(sz)
    \/ \E uids \in SUBSET Uids : SrcDeath(uids)
    \/ SrcTick

Next == Source \/ NewPoints \/ GeneratePointsAgain \/ Reset

Spec == Init /\ [][Next]_vars

(* ------------------------ client-side Filters ------------------------- *)
\* Filter: its specification and its own edited flag (the sub-filters
\* play no part in the registry's operations).
FilterOf(uid, name, spec_edited, edited) ==
    [spec |-> FilterSpecOf({uid}, name, spec_edited), edited |-> edited]

\* Filter::uid()
FilterUid(filter) == CHOOSE u \in filter.spec.uid : TRUE

\* Filter::set_edited() / Filter::unset_edited()
SetEdited(filter, flag) == [filter EXCEPT !.edited = flag]

\* FilterSpec::unset_edited()
SpecUnsetEdited(spec) == [spec EXCEPT !.edited = FALSE]

FilterUids == 1..MaxUid
Names == {"a", "b"}

\* The filters and the specifications a caller or the server can send.
AnyFilter ==
    {FilterOf(u, n, se, e) : u \in FilterUids, n \in Names, se \in BOOLEAN, e \in BOOLEAN}
AnyCatchAll == {FilterSpecOf({}, n, e) : n \in Names, e \in BOOLEAN}
AnyFilterMap ==
    UNION {{m \in [S -> AnyFilter] : \A u \in S : FilterUid(m[u]) = u} : S \in SUBSET FilterUids}
AnySpecMap ==
    UNION {{m \in [S -> {f.spec : f \in AnyFilter}] : \A u \in S : m[u].uid = {u}}
              : S \in SUBSET FilterUids}

\* Map::insert and Map::remove
MapInsert(m, k, v) == [x \in DOMAIN m \cup {k} |-> IF x = k THEN v ELSE m[x]]
MapRemove(m, k) == [x \in DOMAIN m \ {k} |-> m[x]]

\* The keys of a map in iteration order (increasing).
RECURSIVE Keys(_)
Keys(S) ==
    IF S = {} THEN << >>
    ELSE LET k == CHOOSE x \in S : \A y \in S : x <= y
         IN  <<k>> \o Keys(S \ {k})

\* Messages sent on to_model.
Removed(uid) == [msg |-> "removed", uid |-> uid]
ToggleTab(uid) == [msg |-> "toggle_tab", uid |-> uid]
UpdateAll(ca, fs) == [msg |-> "update_all", catch_all |-> ca, filters |-> fs]
RefreshFilters == [msg |-> "refresh_filters"]

\* The fields of a Filters value; an operation yields whether it returned
\* Ok, the fields afterwards and the messages it emitted.
Self == [catch_all |-> catch_all, filters |-> filters, deleted |-> deleted]
Ret(ok, self, emit) == [ok |-> ok, self |-> self, emit |-> emit]

\* The lookup finds the catch-all in the map of the filters.
get_spec_mut_in_map(self, uid) ==
    {self.filters[u].spec : u \in uid \cap DOMAIN self.filters}

\* Filters::get_spec_mut(uid): the result is {} for None.
get_spec_mut(self, uid) ==
    IF uid = {} THEN {self.catch_all}
    ELSE {self.filters[u].spec : u \in uid \cap DOMAIN self.filters}

\* Filters::specs_apply(f): the specifications f is applied to, in order.
specs_apply(self) ==
    <<self.catch_all>>
        \o [i \in 1..Cardinality(DOMAIN self.filters) |->
               self.filters[Keys(DOMAIN self.filters)[i]].spec]

\* Filters::push(filter): the insertion comes before the test.
push(self, filter) ==
    LET uid  == FilterUid(filter)
        prev == uid \in DOMAIN self.filters
    IN  Ret(~prev, [self EXCEPT !.filters = MapInsert(self.filters, uid, filter)], << >>)

\* The removal drops the first filter, whatever the uid.
remove_first(self, uid) ==
    IF DOMAIN self.filters # {}
    THEN Ret(TRUE,
             [self EXCEPT !.filters = MapRemove(self.filters, Head(Keys(DOMAIN self.filters)))],
             << >>)
    ELSE Ret(FALSE, self, << >>)

\* Filters::remove(uid)
remove(self, uid) ==
    IF uid \in DOMAIN self.filters
    THEN Ret(TRUE, [self EXCEPT !.filters = MapRemove(self.filters, uid)], << >>)
    ELSE Ret(FALSE, self, << >>)

\* A pending deletion does not count.
edited_ignores_deleted(self) ==
    \/ self.catch_all.edited
    \/ \E u \in DOMAIN self.filters : self.filters[u].edited \/ self.filters[u].spec.edited

\* Filters::edited()
edited(self) ==
    \/ self.deleted \/ self.catch_all.edited
    \/ \E u \in DOMAIN self.filters : self.filters[u].edited \/ self.filters[u].spec.edited

\* Filters::change_name(uid, new_name) and Filters::change_color(uid,
\* new_color): text is the new name, "" for a color (which the registry
\* does not look at); valid is false for an empty name and for a text
\* that is not a color.
change_spec(self, uid, text, valid) ==
    IF ~valid \/ get_spec_mut(self, uid) = {} THEN Ret(FALSE, self, << >>)
    ELSE LET old == CHOOSE sp \in get_spec_mut(self, uid) : TRUE
             new == [old EXCEPT !.name = IF text = "" THEN @ ELSE text, !.edited = TRUE]
         IN  IF uid = {} THEN Ret(TRUE, [self EXCEPT !.catch_all = new], << >>)
             ELSE Ret(TRUE,
                      [self EXCEPT !.filters =
                          [u \in DOMAIN self.filters |->
                              IF u \in uid THEN [self.filters[u] EXCEPT !.spec = new]
                              ELSE self.filters[u]]],
                      << >>)

\* Filters::update(msg), for the messages Save, Rm(uid), FilterSpec
\* { uid, ChangeName / ChangeColor } and Filter { uid, msg }; sub_ok
\* tells whether the operation on the sub-filters succeeds.
update(self, msg) ==
    IF msg.tag = "ChangeName"
    THEN change_spec(self, msg.uid, msg.name, msg.name # "")
    ELSE IF msg.tag = "ChangeColor"
    THEN change_spec(self, msg.uid, "", msg.valid)
    ELSE IF msg.tag = "Filter"
    THEN IF msg.uid \in DOMAIN self.filters /\ msg.sub_ok
         THEN Ret(TRUE,
                  [self EXCEPT !.filters[msg.uid] = SetEdited(self.filters[msg.uid], TRUE)],
                  << >>)
         ELSE Ret(FALSE, self, << >>)
    ELSE IF msg.tag = "Save"
    THEN Ret(TRUE,
             [catch_all |-> SpecUnsetEdited(self.catch_all),
              filters   |-> [u \in DOMAIN self.filters |->
                               [spec |-> SpecUnsetEdited(self.filters[u].spec),
                                edited |-> FALSE]],
              deleted   |-> FALSE],
             <<UpdateAll(self.catch_all,
                         [i \in 1..Cardinality(DOMAIN self.filters) |->
                             self.filters[Keys(DOMAIN self.filters)[i]]])>>)
    ELSE LET r == remove(self, msg.uid)
         IN  IF r.ok THEN Ret(TRUE, [r.self EXCEPT !.deleted = TRUE], <<Removed(msg.uid)>>)
             ELSE r

\* Filters::add_filter(filter)
add_filter(self, filter) ==
    LET uid  == FilterUid(filter)
        prev == uid \in DOMAIN self.filters
        nu   == [self EXCEPT !.filters = MapInsert(self.filters, uid, SetEdited(filter, TRUE))]
    IN  IF prev THEN Ret(FALSE, nu, << >>)
        ELSE Ret(TRUE, nu, <<ToggleTab(uid)>>)

\* Filters::rm_filter(uid)
rm_filter(self, uid) ==
    LET r == remove(self, uid)
    IN  IF r.ok THEN Ret(TRUE, r.self, <<Removed(uid)>>) ELSE r

\* Filters::update_specs(catch_all, specs): the specifications are
\* replaced before the test on the uids left.
update_specs(self, ca, specs) ==
    LET nu == [self EXCEPT
                 !.catch_all = IF ca = {} THEN self.catch_all
                               ELSE SpecUnsetEdited(CHOOSE c \in ca : TRUE),
                 !.filters = [u \in DOMAIN self.filters |->
                                IF u \in DOMAIN specs
                                THEN [self.filters[u] EXCEPT !.spec = SpecUnsetEdited(specs[u])]
                                ELSE self.filters[u]]]
    IN  IF DOMAIN specs \ DOMAIN self.filters # {} THEN Ret(FALSE, nu, << >>)
        ELSE Ret(TRUE, nu, <<RefreshFilters>>)

\* Filters::server_update(msg).  The filters of a Revert are the server's
\* own map: one filter per uid, listed in the order of the uids.
server_update(self, msg) ==
    CASE msg.tag = "Add" -> add_filter(self, msg.filter)
      [] msg.tag = "Revert" ->
            LET gone == Keys(DOMAIN self.filters \ DOMAIN msg.filters)
            IN  Ret(TRUE,
                    [self EXCEPT !.catch_all = msg.catch_all, !.filters = msg.filters],
                    [i \in 1..Len(gone) |-> Removed(gone[i])])
      [] msg.tag = "UpdateSpecs" -> update_specs(self, msg.catch_all, msg.specs)

\* The call op(uid) returned r ({} when op takes no uid).
Returns(r, op, uid) ==
    /\ catch_all' = r.self.catch_all
    /\ filters' = r.self.filters
    /\ deleted' = r.self.deleted
    /\ to_model' = r.emit
    /\ res' = [op |-> op, uid |-> uid, ok |-> r.ok]
    /\ UNCHANGED <<timesize_vars, label_vars, footer_vars>>

Push == \E f \in AnyFilter : Returns(push(Self, f), "push", {FilterUid(f)})
Remove == \E u \in FilterUids : Returns(remove(Self, u), "remove", {u})
UpdateSave == Returns(update(Self, [tag |-> "Save"]), "Save", {})
UpdateRm == \E u \in FilterUids : Returns(update(Self, [tag |-> "Rm", uid |-> u]), "Rm", {u})
\* A name, a color or the sub-filters of a filter are changed.
UpdateChange ==
    \/ \E uid \in {{}} \cup {{u} : u \in FilterUids}, n \in Names \cup {""} :
          Returns(update(Self, [tag |-> "ChangeName", uid |-> uid, name |-> n]), "Change", uid)
    \/ \E uid \in {{}} \cup {{u} : u \in FilterUids}, v \in BOOLEAN :
          Returns(update(Self, [tag |-> "ChangeColor", uid |-> uid, valid |-> v]), "Change", uid)
    \/ \E u \in FilterUids, ok \in BOOLEAN :
          Returns(update(Self, [tag |-> "Filter", uid |-> u, sub_ok |-> ok]), "Change", {u})
ServerAdd ==
    \E f \in AnyFilter :
        Returns(server_update(Self, [tag |-> "Add", filter |-> f]), "add_filter", {FilterUid(f)})
ServerRevert ==
    \E ca \in AnyCatchAll, fs \in AnyFilterMap :
        Returns(server_update(Self, [tag |-> "Revert", catch_all |-> ca, filters |-> fs]),
                "Revert", {})
ServerUpdateSpecs ==
    \E ca \in {{}} \cup {{c} : c \in AnyCatchAll}, specs \in AnySpecMap :
        Returns(server_update(Self, [tag |-> "UpdateSpecs", catch_all |-> ca, specs |-> specs]),
                "update_specs", {})
RmFilter == \E u \in FilterUids : Returns(rm_filter(Self, u), "rm_filter", {u})

InitFilters ==
    TimeSizeDefault /\ plan.calls = 1 /\ ~debug /\ FiltersNew /\ NoLabelCall /\ FooterNew

NextFilters ==
    \/ Push
    \/ Remove
    \/ UpdateSave
    \/ UpdateRm
    \/ UpdateChange
    \/ ServerAdd
    \/ ServerRevert
    \/ ServerUpdateSpecs
    \/ RmFilter

SpecFilters == InitFilters /\ [][NextFilters]_vars

(* ------------------------------- footers ------------------------------ *)
\* Footer::update(msg) of footer.rs on the active tab act, for
\* ToggleTab(tab) and Removed(uid): the active tab afterwards and the
\* ShouldRender returned.
FooterUpdate(act, msg) ==
    IF msg.msg = "toggle_tab"
    THEN [active |-> IF act = {msg.tab} THEN {} ELSE {msg.tab}, render |-> TRUE]
    ELSE IF act = {FilterTab(Filter(msg.uid))}
         THEN [active |-> {FilterTab(Everything)}, render |-> TRUE]
         ELSE [active |-> act, render |-> FALSE]

\* The other tabs are left as they are.
TabsToggle_leaves_others(tbs, tab) == [tbs EXCEPT ![tab] = ~tbs[tab]]

\* Footer::update(FooterMsg::Toggle(tab)) of footer/mod.rs on the map tbs.
TabsToggle(tbs, tab) ==
    LET is_active_now == ~tbs[tab]
    IN  IF is_active_now THEN [t \in DOMAIN tbs |-> t = tab]
        ELSE [tbs EXCEPT ![tab] = FALSE]

\* Footer::get_active of footer/mod.rs: the first active tab, {} for None.
get_active(tbs) ==
    IF tbs[TabInfo] THEN {TabInfo} ELSE IF tbs[TabFilters] THEN {TabFilters} ELSE {}

\* A tab of the footer of footer.rs is clicked.
FooterToggleTab ==
    \E tab \in {InfoTab, FilterTab(Everything), FilterTab(CatchAll)}
                 \cup {FilterTab(Filter(u)) : u \in FilterUids} :
        /\ active' = FooterUpdate(active, [msg |-> "toggle_tab", tab |-> tab]).active
        /\ UNCHANGED <<tabs, timesize_vars, client_vars, label_vars>>

\* The model hands the first message of to_model on: a message for the
\* footer goes to Footer::update, the others leave the client.
FooterDeliver ==
    /\ to_model # << >>
    /\ LET m == Head(to_model)
       IN  active' =
             CASE m.msg = "removed" -> FooterUpdate(active, m).active
               [] m.msg = "toggle_tab" ->
                     FooterUpdate(active, [msg |-> "toggle_tab",
                                           tab |-> FilterTab(Filter(m.uid))]).active
               [] OTHER -> active
    /\ to_model' = Tail(to_model)
    /\ UNCHANGED <<tabs, catch_all, filters, deleted, res, timesize_vars, label_vars>>

\* A tab of the footer of footer/mod.rs is clicked.
FooterToggle ==
    \E tab \in {TabInfo, TabFilters} :
        /\ tabs' = TabsToggle(tabs, tab)
        /\ UNCHANGED <<active, timesize_vars, client_vars, label_vars>>

\* The registry works on a message once the messages it emitted before
\* have been handed on.
InitFooter == InitFilters

NextFooter ==
    \/ FooterToggleTab
    \/ FooterDeliver
    \/ FooterToggle
    \/ (to_model = << >> /\ ServerAdd)
    \/ (to_model = << >> /\ RmFilter)
    \/ (to_model = << >> /\ UpdateRm)

SpecFooter == InitFooter /\ [][NextFooter]_vars

(* ---------------------------- label filters --------------------------- *)
\* Strings are sequences of characters.
SeqsUpTo(S, n) == UNION {[1..k -> S] : k \in 0..n}

ValueOf(s) == [tag |-> "Value", text |-> s]
RegexOf(body) == [tag |-> "Regex", text |-> body]

\* Regex::is_match(label) for a regex made of literal characters and
\* dots: some substring of the label has the characters of the body, a
\* dot standing for any character.
RegexIsMatch(body, label) ==
    \E i \in 0..(Len(label) - Len(body)) :
        \A j \in 1..Len(body) : body[j] = "." \/ body[j] = label[i + j]

\* Regex::new(body): over the characters used here, the body is a regex
\* unless it opens a group (nothing closes it).
RegexNew(body) == \A j \in 1..Len(body) : body[j] # "("

\* LabelSpec::matches_anything reports no wildcard.
matches_anything_never(spec) == FALSE

\* LabelSpec::matches_anything
matches_anything(spec) == spec.tag = "Anything"

\* LabelSpec::apply(label)
LabelSpecApply(spec, label) ==
    CASE spec.tag = "Value" -> label = spec.text
      [] spec.tag = "Regex" -> RegexIsMatch(spec.text, label)
      [] spec.tag = "Anything" -> TRUE

\* 'drain_match_anything: the specs left from the first that is not a
\* wildcard, << >> when all are wildcards.
Drain(specs) ==
    LET concrete == {i \in 1..Len(specs) : ~matches_anything(specs[i])}
    IN  IF concrete = {} THEN << >>
        ELSE SubSeq(specs, CHOOSE i \in concrete : \A j \in concrete : i <= j, Len(specs))

\* The loop commits to the last label that matches.
FindMatch_last(spec, labels, can_skip) ==
    LET hits == {i \in 1..Len(labels) : LabelSpecApply(spec, labels[i])}
    IN  IF can_skip
        THEN IF hits = {} THEN 0 ELSE CHOOSE i \in hits : \A j \in hits : j <= i
        ELSE IF 1 \in hits THEN 1 ELSE 0

\* The loop skips labels whatever can_skip.
FindMatch_skips(spec, labels, can_skip) ==
    LET hits == {i \in 1..Len(labels) : LabelSpecApply(spec, labels[i])}
    IN  IF hits = {} THEN 0 ELSE CHOOSE i \in hits : \A j \in hits : i <= j

\* 'find_match: the number of labels the loop takes from the iterator
\* when it finds a match, 0 when check_contain returns false.
FindMatch(spec, labels, can_skip) ==
    LET hits == {i \in 1..Len(labels) : LabelSpecApply(spec, labels[i])}
    IN  IF can_skip
        THEN IF hits = {} THEN 0 ELSE CHOOSE i \in hits : \A j \in hits : i <= j
        ELSE IF 1 \in hits THEN 1 ELSE 0

\* The labels left are not looked at.
is_none_ignored(labels) == TRUE

\* labels.next().is_none()
is_none(labels) == labels = << >>

\* LabelFilter::check_contain(specs, labels), one 'next_spec iteration
\* per unfolding.
RECURSIVE check_contain(_, _)
check_contain(specs, labels) ==
    IF specs = << >> THEN is_none(labels)
    ELSE LET can_skip == matches_anything(Head(specs))
             rest     == IF can_skip THEN Drain(Tail(specs)) ELSE specs
         IN  IF rest = << >> THEN TRUE
             ELSE LET n == FindMatch(Head(rest), labels, can_skip)
                  IN  IF n = 0 THEN FALSE
                      ELSE check_contain(Tail(rest), SubSeq(labels, n + 1, Len(labels)))

\* Exclude answers as Contain does.
LabelFilterApply_as_contain(kind, specs, labels) == check_contain(specs, labels)

\* LabelFilter::apply(labels) of the filter (kind, specs)
LabelFilterApply(kind, specs, labels) ==
    IF kind = "Contain" THEN check_contain(specs, labels)
    ELSE ~check_contain(specs, labels)

\* From<String> for LabelSpec
FromString(s) == IF s = <<".", ".", ".">> THEN Anything ELSE ValueOf(s)

\* LabelSpec::new(label).  The slices are taken as the code takes them:
\* &label[2..label.len() - 2] panics when 2 > label.len() - 2.
LabelSpecNew(label) ==
    LET len == Len(label)
    IN  IF len > 2 /\ SubSeq(label, 1, 2) = <<"#", "\"">>
        THEN IF SubSeq(label, len - 1, len) # <<"\"", "#">>
             THEN LabelRet("err", FALSE, Anything)
             ELSE IF 2 > len - 2
             THEN LabelRet("panic", FALSE, Anything)
             ELSE IF RegexNew(SubSeq(label, 3, len - 2))
             THEN LabelRet("spec", FALSE, RegexOf(SubSeq(label, 3, len - 2)))
             ELSE LabelRet("err", FALSE, Anything)
        ELSE LabelRet("spec", FALSE, FromString(label))

\* Display for LabelSpec: the value itself, the regex between #" and "#,
\* three dots for the wildcard.
Display(spec) ==
    CASE spec.tag = "Value" -> spec.text
      [] spec.tag = "Regex" -> <<"#", "\"">> \o spec.text \o <<"\"", "#">>
      [] spec.tag = "Anything" -> <<".", ".", ".">>

\* LabelSpec::is_empty
is_empty(spec) == spec.tag = "Value" /\ spec.text = << >>

\* Vec::remove(index), index counted from 0.
VecRemove(v, index) == SubSeq(v, 1, index) \o SubSeq(v, index + 2, Len(v))

\* Vec::insert(index, x), index counted from 0.
VecInsert(v, index, x) == SubSeq(v, 1, index) \o <<x>> \o SubSeq(v, index + 1, Len(v))

\* LabelFilter::insert(index, spec) on the filter (kind, specs):
\* specs.remove(index) for an empty spec, specs[index] = spec otherwise;
\* both panic on an index that is not one of specs.
LabelFilterInsert(kind, specs, index, spec) ==
    IF index >= Len(specs) THEN FilterRet("panic", FALSE, kind, specs)
    ELSE IF is_empty(spec)
    THEN FilterRet("ok", FALSE, kind, VecRemove(specs, index))
    ELSE FilterRet("ok", FALSE, kind, [specs EXCEPT ![index + 1] = spec])

\* LabelSpec::default()
LabelSpecDefault == ValueOf(<<"m", "y", " ", "l", "a", "b", "e", "l">>)

\* LabelFilter::update(update) on the filter (kind, specs), for Kind(nu_kind),
\* Add(index) and Replace(index, text).  Self::of_kind(nu_kind,
\* specs.clone()) builds a filter that is dropped: self keeps its kind.
LabelFilterUpdate(kind, specs, op, nu_kind, index, text) ==
    CASE op = "update_kind" -> FilterRet("ok", nu_kind # kind, kind, specs)
      [] op = "update_add" ->
            IF index > Len(specs) THEN FilterRet("panic", FALSE, kind, specs)
            ELSE FilterRet("ok", TRUE, kind, VecInsert(specs, index, LabelSpecDefault))
      [] op = "update_replace" ->
            LET new == LabelSpecNew(text)
            IN  IF new.tag # "spec" THEN FilterRet(new.tag, FALSE, kind, specs)
                ELSE IF index >= Len(specs) THEN FilterRet("panic", FALSE, kind, specs)
                ELSE FilterRet("ok", TRUE, kind, [specs EXCEPT ![index + 1] = new.spec])

\* A backtracking matcher: a wildcard stands for any run of labels, a
\* concrete spec for one label it matches, and every label is accounted.
RECURSIVE Backtrack(_, _)
Backtrack(specs, labels) ==
    IF specs = << >> THEN labels = << >>
    ELSE IF matches_anything(Head(specs))
    THEN \E k \in 0..Len(labels) :
            Backtrack(Tail(specs), SubSeq(labels, k + 1, Len(labels)))
    ELSE /\ labels # << >>
         /\ LabelSpecApply(Head(specs), Head(labels))
         /\ Backtrack(Tail(specs), Tail(labels))

\* The labels, the specifications and the texts the calls are made with.
La == <<"a">>
Lb == <<"b">>
Lx == <<"x">>
Labels == {La, Lb, Lx}
LabelSpecs == {Anything, ValueOf(La), ValueOf(Lb), ValueOf(Lx), RegexOf(<<".">>)}
Kinds == {"Contain", "Exclude"}
Chars == {"#", "\"", ".", "a", "("}
\* label_in is one of the calls made.
LabelCalls ==
    \/ \E k \in Kinds, sp \in SeqsUpTo(LabelSpecs, MaxSpecs), ls \in SeqsUpTo(Labels, MaxLabels) :
          label_in = LabelCall("apply", k, sp, ls, << >>)
    \/ \E t \in SeqsUpTo(Chars, MaxText) :
          label_in = LabelCall("new", "Contain", << >>, << >>, t)
    \/ \E t \in SeqsUpTo(Chars, MaxText) :
          \/ label_in = LabelCall("display", "Contain", <<ValueOf(t)>>, << >>, << >>)
          \/ RegexNew(t) /\ label_in = LabelCall("display", "Contain", <<RegexOf(t)>>, << >>, << >>)
          \/ t = << >> /\ label_in = LabelCall("display", "Contain", <<Anything>>, << >>, << >>)
    \/ \E k \in Kinds, sp \in SeqsUpTo(LabelSpecs, MaxSpecs - 1), i \in 0..MaxSpecs :
          \/ \E nk \in Kinds :
                label_in = [LabelCall("update_kind", k, sp, << >>, << >>) EXCEPT !.nu_kind = nk]
          \/ label_in = [LabelCall("update_add", k, sp, << >>, << >>) EXCEPT !.index = i]
          \/ \E t \in SeqsUpTo(Chars, 3) :
                label_in = [LabelCall("update_replace", k, sp, << >>, t) EXCEPT !.index = i]
          \/ \E s \in LabelSpecs \cup {ValueOf(<< >>)} :
                label_in = [LabelCall("insert", k, sp, << >>, << >>)
                               EXCEPT !.index = i, !.spec = s]

\* filter.apply(labels) is called.
ApplyLabelFilter ==
    /\ label_in.op = "apply"
    /\ label_out = NotReturned
    /\ label_out' = LabelRet("bool",
                             LabelFilterApply(label_in.kind, label_in.specs, label_in.labels),
                             Anything)
    /\ UNCHANGED <<label_in, timesize_vars, client_vars, footer_vars>>

\* LabelSpec::new(text) is called.
NewLabelSpec ==
    /\ label_in.op = "new"
    /\ label_out = NotReturned
    /\ label_out' = LabelSpecNew(label_in.text)
    /\ UNCHANGED <<label_in, timesize_vars, client_vars, footer_vars>>

\* A spec is written with Display and the text is given to LabelSpec::new.
DisplayThenNew ==
    /\ label_in.op = "display"
    /\ label_out = NotReturned
    /\ label_out' = LabelSpecNew(Display(label_in.specs[1]))
    /\ UNCHANGED <<label_in, timesize_vars, client_vars, footer_vars>>

\* filter.update(update) is called.
UpdateLabelFilter ==
    /\ label_in.op \in {"update_kind", "update_add", "update_replace"}
    /\ label_out = NotReturned
    /\ label_out' = LabelFilterUpdate(label_in.kind, label_in.specs, label_in.op,
                                      label_in.nu_kind, label_in.index, label_in.text)
    /\ UNCHANGED <<label_in, timesize_vars, client_vars, footer_vars>>

\* filter.insert(index, spec) is called.
InsertLabelSpec ==
    /\ label_in.op = "insert"
    /\ label_out = NotReturned
    /\ label_out' = LabelFilterInsert(label_in.kind, label_in.specs,
                                      label_in.index, label_in.spec)
    /\ UNCHANGED <<label_in, timesize_vars, client_vars, footer_vars>>

InitLabels ==
    /\ TimeSizeDefault /\ plan.calls = 1 /\ ~debug
    /\ FiltersNew
    /\ LabelCalls
    /\ label_out = NotReturned
    /\ FooterNew

NextLabels ==
    ApplyLabelFilter \/ NewLabelSpec \/ DisplayThenNew \/ UpdateLabelFilter \/ InsertLabelSpec

SpecLabels == InitLabels /\ [][NextLabels]_vars

(* ----------------------------- properties ----------------------------- *)
Flushed == status \in {"ok", "again"}
SizeOf(u) == allocs[u].size
BirthLine(u) == LineOf(find_match(hist.ct, allocs[u]))
DeathLine(u) == LineOf(find_dead_match(allocs[u]))
TheOnly(S) == CHOOSE x \in S : TRUE

\* C1: as long as every new_points call has succeeded, every birth and
\* every non-empty death notification the source held at the last pull
\* has been accumulated exactly once: none skipped, none counted twice.
C1_ExactlyOnce ==
    (Flushed /\ ~hist.failed) =>
        \A u \in Uids :
            /\ hist.seen_new[u] <= 1
            /\ hist.seen_dead[u] <= 1
            /\ allocs[u].toc <= hist.pulled_time => hist.seen_new[u] = 1
            /\ (allocs[u].tod # NoTod /\ allocs[u].tod <= hist.pulled_time)
                   => hist.seen_dead[u] = 1

\* C2: in generate_points no subtraction (size + added) - removed
\* underflows: no baseline becomes negative, when the aggregator has
\* ingested the birth of every object whose death it has ingested.
C2_NoUnderflow ==
    (\A u \in Uids : hist.seen_dead[u] > 0 => hist.seen_new[u] > 0) => ~hist.underflow

\* C3: for every object whose birth and death were both ingested, the
\* bucket of its death is not dated before the bucket of its birth, and
\* the line of its death had already received at least its size.
C3_DeathAfterBirth ==
    \A u \in Uids :
        (hist.birth_date[u] # {} /\ hist.death_date[u] # {}) =>
            /\ TheOnly(hist.death_date[u]) >= TheOnly(hist.birth_date[u])
            /\ u \notin hist.uncovered

\* C4: a birth of size s on line L ingested alone: after the flush the
\* sizes of L and of Everything are exactly s higher than before the
\* ingest and the size of every other line is unchanged.
C4_BirthAlone ==
    \A u \in Uids :
        (status = "ok" /\ hist.pre_empty
            /\ hist.batch_new = {u} /\ hist.batch_dead = {}) =>
            \A l \in DOMAIN size :
                /\ l \in DOMAIN hist.pre_size
                /\ size[l] = hist.pre_size[l]
                                + (IF l \in {BirthLine(u), Everything} THEN SizeOf(u) ELSE 0)
                /\ hist.pre_size[l] >= 0 => size[l] >= 0
C4_Witness ==
    \E u \in Uids :
        /\ status = "ok" /\ hist.pre_empty
        /\ hist.batch_new = {u} /\ hist.batch_dead = {}
        /\ BirthLine(u) = Filter(1)
        /\ size[CatchAll] > 0
        /\ size[Everything] = size[CatchAll] + SizeOf(u)

\* C5: a death of an object of size s attributed to line L ingested
\* alone: after the flush the sizes of L and of Everything are exactly s
\* lower than before the ingest and every other line is unchanged.
C5_DeathAlone ==
    \A u \in Uids :
        (status = "ok" /\ hist.pre_empty
            /\ hist.batch_new = {} /\ hist.batch_dead = {u}) =>
            \A l \in DOMAIN size :
                /\ l \in DOMAIN hist.pre_size
                /\ size[l] = hist.pre_size[l]
                                - (IF l \in {DeathLine(u), Everything} THEN SizeOf(u) ELSE 0)
                /\ hist.pre_size[l] >= 0 => size[l] >= 0

\* C6: when an ingest fails part-way and the retry succeeds on the same
\* events, the flush yields the sizes of a single successful ingest.
C6_RetryIdempotent ==
    (status = "ok" /\ hist.expect # {}) => size \in hist.expect

\* C7: generate_points called again with no get_allocs in between
\* returns no point and leaves size, timestamp and map unchanged.
C7_SecondFlushEmpty ==
    [][GeneratePointsAgain => (points' = << >> /\ UNCHANGED agg_vars)]_vars
C7_Witness == status = "again" /\ hist.batch_new # {} /\ size[Everything] > 0

\* A flush that produced exactly one real point.
LonePoint == status = "ok" /\ Cardinality(hist.dates) = 1

\* C8 as stated: the lone point at T comes out as three points dated
\* T - 1ns, T, T + 1ns, the first zero-valued.
C8_BorderNanos ==
    LonePoint =>
        LET T == TheOnly(hist.dates)
        IN  /\ Len(points) = 3
            /\ <<points[1].key, points[2].key, points[3].key>> = <<T - 1, T, T + 1>>
            /\ \A l \in DOMAIN points[1].vals : points[1].vals[l] = 0

\* C8 amended: the lone point at T comes out as three points dated
\* T - 1s, T, T + 1s, the first zero-valued on every line of the point.
C8_BorderSeconds ==
    LonePoint =>
        LET T == TheOnly(hist.dates)
        IN  /\ Len(points) = 3
            /\ <<points[1].key, points[2].key, points[3].key>>
                   = <<T - NanosPerSec, T, T + NanosPerSec>>
            /\ DOMAIN points[1].vals = DOMAIN points[2].vals
            /\ \A l \in DOMAIN points[1].vals : points[1].vals[l] = 0
C8_Witness ==
    /\ LonePoint /\ Len(points) = 3
    /\ hist.batch_new # {}
    /\ points[2].vals[Everything] > 0

\* C9: the border point after a lone point carries the values of the
\* lone point on every line.
C9_AfterDuplicates ==
    LonePoint => (Len(points) = 3 /\ points[3].vals = points[2].vals)

\* C10: with a width of 200 pixels, two births of one ingest whose times
\* differ by less than min_time_spacing go to the same bucket.
C10_SameBucket ==
    hist.width = PxPerBucket =>
        \A u, v \in hist.batch_new :
            (allocs[u].toc - allocs[v].toc < hist.spacing
                /\ allocs[v].toc - allocs[u].toc < hist.spacing)
                => hist.birth_date[u] = hist.birth_date[v]
C10_Witness ==
    /\ status = "ok" /\ hist.width = PxPerBucket
    /\ \E u, v \in hist.batch_new :
          /\ allocs[u].toc + 1 < allocs[v].toc
          /\ allocs[v].toc - allocs[u].toc < hist.spacing
          /\ hist.birth_date[u] = hist.birth_date[v]

\* C11: pushing a filter (push, or add_filter for a filter the server
\* sent) whose uid is already registered returns an error and leaves the
\* registry unchanged: the filter stored under that uid stays.
C11_PushCollision ==
    [][(res'.op \in {"push", "add_filter"} /\ res'.uid \subseteq DOMAIN filters)
          => (~res'.ok /\ filters' = filters /\ catch_all' = catch_all
              /\ deleted' = deleted)]_vars

\* C12: removing (remove, Rm, rm_filter) a uid that is not registered
\* returns an error, changes nothing, sets no pending deletion and emits
\* no Removed; removing a registered uid removes that filter and no other.
C12_Remove ==
    [][res'.op \in {"remove", "Rm", "rm_filter"} =>
          IF res'.uid \subseteq DOMAIN filters
          THEN /\ res'.ok
               /\ DOMAIN filters' = DOMAIN filters \ res'.uid
               /\ \A u \in DOMAIN filters' : filters'[u] = filters[u]
               /\ catch_all' = catch_all
          ELSE /\ ~res'.ok
               /\ filters' = filters
               /\ catch_all' = catch_all
               /\ deleted' = deleted
               /\ to_model' = << >>]_vars

\* An Rm for a uid that is not registered, among registered filters.
C12_Witness ==
    res.op = "Rm" /\ ~res.ok /\ DOMAIN filters # {} /\ ~deleted /\ res.uid \cap DOMAIN filters = {}

\* C13: whatever the operations, the catch-all is there (looked up with
\* no uid, and first of the specifications), and no removal changes it.
C13_CatchAllStays ==
    /\ [](/\ get_spec_mut(Self, {}) = {catch_all}
          /\ catch_all.uid = {}
          /\ Head(specs_apply(Self)) = catch_all
          /\ Len(specs_apply(Self)) = Cardinality(DOMAIN filters) + 1)
    /\ [][res'.op \in {"remove", "Rm", "rm_filter"} => catch_all' = catch_all]_vars

\* The last filter was removed after the catch-all was given a new name.
C13_Witness ==
    res.op = "Rm" /\ res.ok /\ DOMAIN filters = {} /\ catch_all.name \in Names

\* The (added, removed) delta of line l in the bucket at date d of m, a
\* missing bucket or line counting for no delta.
DeltaAt(m, d, l) ==
    IF d \in DOMAIN m THEN GetOr(m[d], l, <<INIT_SIZE_VALUE, INIT_SIZE_VALUE>>)
    ELSE <<INIT_SIZE_VALUE, INIT_SIZE_VALUE>>

\* The entries (bucket, line) that differ between the maps m0 and m1.
Touched(m0, m1) ==
    {e \in (DOMAIN m0 \cup DOMAIN m1) \X DOMAIN PointValNew(INIT_SIZE_VALUE) :
        DeltaAt(m0, e[1], e[2]) # DeltaAt(m1, e[1], e[2])}

\* C14: the closure of a birth, or of a death, run on the pending map for
\* any event of the source, changes two entries of one bucket: the line
\* Everything and the line of the event (its filter, or the catch-all),
\* each by the size of the allocation; no other entry changes.
C14_TwoEntries ==
    \A w \in Widths, t \in {current_time} \cup {allocs[v].toc : v \in Uids}, u \in Uids :
        LET spacing == MinTimeSpacing(current_time, w)
            st0     == [map |-> map, lts |-> {t}, new_stuff |-> FALSE,
                        births |-> {}, deaths |-> {}]
            sz      == allocs[u].size
            born    == VisitNew(st0, u, current_time, spacing).map
            bdate   == as_date(Adjust({t}, allocs[u].toc, spacing).at)
            ddate   == as_date(Adjust({t}, allocs[u].tod, spacing).at)
            dead    == DeadLoop(map, {u}, ddate)
        IN  /\ Touched(map, born) = {<<bdate, Everything>>, <<bdate, BirthLine(u)>>}
            /\ BirthLine(u) \in {CatchAll} \cup {Filter(LineFilters[i].uid) : i \in 1..Len(LineFilters)}
            /\ \A l \in {Everything, BirthLine(u)} :
                  DeltaAt(born, bdate, l) =
                      <<DeltaAt(map, bdate, l)[1] + sz, DeltaAt(map, bdate, l)[2]>>
            /\ allocs[u].tod # NoTod =>
                  /\ Touched(map, dead) = {<<ddate, Everything>>, <<ddate, DeathLine(u)>>}
                  /\ \A l \in {Everything, DeathLine(u)} :
                        DeltaAt(dead, ddate, l) =
                            <<DeltaAt(map, ddate, l)[1], DeltaAt(map, ddate, l)[2] + sz>>

\* A failed call left a bucket with the birth and the death it ingested.
C14_Witness ==
    /\ status = "err"
    /\ DOMAIN map # {}
    /\ hist.batch_new # {}
    /\ hist.batch_dead # {}

\* The filter (kind, specs) was applied to labels and answered.
Applied == label_in.op = "apply" /\ label_out.tag = "bool"

\* C15: what Exclude(specs) answers for labels is the negation of what
\* Contain(specs) answers for the same labels.
C15_ExcludeNegates ==
    Applied =>
        LET other == IF label_in.kind = "Contain" THEN "Exclude" ELSE "Contain"
        IN  label_out.bool = ~LabelFilterApply(other, label_in.specs, label_in.labels)

\* Exclude accepted labels for a list of specs that is not empty.
C15_Witness ==
    Applied /\ label_in.kind = "Exclude" /\ label_out.bool /\ label_in.specs # << >>

\* Contain(specs) was applied to labels and answered.
Contained == Applied /\ label_in.kind = "Contain"

\* C16: when the specs end with a run of wildcards and the specs before
\* the run match some first labels, the match succeeds whatever labels
\* follow; a lone wildcard matches every list of labels, the empty one
\* included.
C16_TrailingWildcards ==
    Contained =>
        LET S == label_in.specs
            L == label_in.labels
        IN  /\ \A p \in 0..(Len(S) - 1), q \in 0..Len(L) :
                  (/\ \A i \in (p + 1)..Len(S) : S[i] = Anything
                   /\ check_contain(SubSeq(S, 1, p), SubSeq(L, 1, q)))
                      => label_out.bool
            /\ S = <<Anything>> => label_out.bool

\* Specs [a, wildcard] accepted labels [a, x, b].
C16_Witness ==
    /\ Contained
    /\ label_in.specs = <<ValueOf(La), Anything>>
    /\ label_in.labels = <<La, Lx, Lb>>
    /\ label_out.bool

\* C17: specs that end with a concrete spec match only when that spec
\* consumes the last label: the last label matches it, and the same
\* labels followed by one more are rejected.  Specs [wildcard, b] match
\* [a, x, b] and do not match [a, b, x].
C17_NoLabelLeft ==
    Contained =>
        LET S == label_in.specs
            L == label_in.labels
        IN  /\ (S # << >> /\ S[Len(S)] # Anything /\ label_out.bool) =>
                  /\ L # << >>
                  /\ LabelSpecApply(S[Len(S)], L[Len(L)])
                  /\ \A x \in Labels : ~check_contain(S, Append(L, x))
            /\ S = <<Anything, ValueOf(Lb)>> =>
                  /\ L = <<La, Lx, Lb>> => label_out.bool
                  /\ L = <<La, Lb, Lx>> => ~label_out.bool

\* Specs [wildcard, b] rejected labels [a, b, x].
C17_Witness ==
    /\ Contained
    /\ label_in.specs = <<Anything, ValueOf(Lb)>>
    /\ label_in.labels = <<La, Lb, Lx>>
    /\ ~label_out.bool

\* C18: a concrete spec at the cursor, with no wildcard before it, must
\* match the next label, and the match goes on from there; specs with no
\* wildcard match exactly the lists of the same length whose labels they
\* match position by position.
C18_NoSkip ==
    Contained =>
        LET S == label_in.specs
            L == label_in.labels
        IN  /\ (S # << >> /\ S[1] # Anything) =>
                  label_out.bool = (/\ L # << >>
                                    /\ LabelSpecApply(S[1], L[1])
                                    /\ check_contain(Tail(S), Tail(L)))
            /\ (\A i \in 1..Len(S) : S[i] # Anything) =>
                  label_out.bool = (/\ Len(S) = Len(L)
                                    /\ \A i \in 1..Len(S) : LabelSpecApply(S[i], L[i]))

\* Specs [a] rejected labels [x, a]: the label x was not skipped.
C18_Witness ==
    /\ Contained
    /\ label_in.specs = <<ValueOf(La)>>
    /\ label_in.labels = <<Lx, La>>
    /\ ~label_out.bool

\* C19: after a wildcard the match commits to the first label that the
\* next concrete spec matches and goes on from there, with no retry; so
\* specs [a, wildcard, a] reject labels [a, a, a], which a backtracking
\* matcher accepts.
C19_Greedy ==
    Contained =>
        LET S == label_in.specs
            L == label_in.labels
        IN  /\ (S # << >> /\ S[1] = Anything /\ Drain(Tail(S)) # << >>) =>
                  LET rest == Drain(Tail(S))
                      hits == {i \in 1..Len(L) : LabelSpecApply(Head(rest), L[i])}
                  IN  label_out.bool =
                          (/\ hits # {}
                           /\ check_contain(Tail(rest),
                                  SubSeq(L, (CHOOSE i \in hits : \A j \in hits : i <= j) + 1,
                                         Len(L))))
            /\ (S = <<ValueOf(La), Anything, ValueOf(La)>> /\ L = <<La, La, La>>) =>
                  (~label_out.bool /\ Backtrack(S, L))

\* Specs [a, wildcard, a] rejected labels [a, a, a].
C19_Witness ==
    /\ Contained
    /\ label_in.specs = <<ValueOf(La), Anything, ValueOf(La)>>
    /\ label_in.labels = <<La, La, La>>
    /\ ~label_out.bool
    /\ Backtrack(label_in.specs, label_in.labels)

\* C20: LabelSpec::new decodes the text ... as the wildcard, a text
\* #"body"# as the regex body, a text that starts with #" and does not
\* end with "# as an illegal-regex error, and any other text as the
\* value equal to the text.
C20_Decode ==
    (label_in.op = "new" /\ label_out.tag # "none") =>
        LET t      == label_in.text
            len    == Len(t)
            starts == len >= 2 /\ SubSeq(t, 1, 2) = <<"#", "\"">>
            ends   == len >= 2 /\ SubSeq(t, len - 1, len) = <<"\"", "#">>
        IN  IF t = <<".", ".", ".">>
            THEN label_out = LabelRet("spec", FALSE, Anything)
            ELSE IF len >= 4 /\ starts /\ ends
            THEN label_out = LabelRet("spec", FALSE, RegexOf(SubSeq(t, 3, len - 2)))
            ELSE IF starts /\ ~ends
            THEN label_out.tag = "err"
            ELSE label_out = LabelRet("spec", FALSE, ValueOf(t))

\* C21: a label spec written in its textual form and decoded with
\* LabelSpec::new is the same spec again (wildcard, value, or regex with
\* the same body).
C21_DisplayRoundTrip ==
    (label_in.op = "display" /\ label_out.tag # "none") =>
        label_out = LabelRet("spec", FALSE, label_in.specs[1])

\* C23: LabelSpec::new does not panic, whatever the text: it returns a
\* spec or an illegal-regex error.
C23_NeverPanics ==
    (label_in.op = "new" /\ label_out.tag # "none") => label_out.tag \in {"spec", "err"}

\* C22: after reset the aggregator is as TimeSize::default makes it:
\* cursor at zero, size zero for every line of the filters, no pending
\* bucket, no coalescing cursor.
C22_ResetIsDefault ==
    status = "reset" =>
        /\ timestamp = 0
        /\ size = PointValNew(INIT_SIZE_VALUE)
        /\ map = EmptyMap
        /\ last_time_stamp = {}

\* A reset after a new_points that failed on a source with events.
C22_Witness == status = "reset" /\ hist.fails > 0 /\ allocs # << >>

\* C24: a get_allocs that returns Ok after accumulating a birth or a
\* death sets the cursor to the current time plus 1ns; one that saw no
\* event, or that returns an error, leaves the cursor where it was.
C24_CursorAdvance ==
    [][(hist'.calls = hist.calls + 1 /\ status' # "reset") =>
          IF status' # "err" /\ hist'.batch_new \cup hist'.batch_dead # {}
          THEN timestamp' = current_time + 1
          ELSE timestamp' = timestamp]_vars

\* A new_points returned Ok having seen no event, after one that had
\* moved the cursor.
C24_Witness ==
    /\ status = "ok"
    /\ hist.batch_new \cup hist.batch_dead = {}
    /\ timestamp > 0
    /\ current_time + 1 > timestamp

\* C25: whenever the body of get_allocs starts, whatever new_points and
\* reset calls came before and whether or not one of them returned an
\* error, self.map is empty.
C25_PendingEmptyAtStart ==
    [][(hist'.calls = hist.calls + 1 /\ status' # "reset") => DOMAIN map = {}]_vars

\* C26: two distinct buckets one get_allocs creates, by births, by
\* deaths or one by each, are at least min_time_spacing apart.
C26_BucketsApart ==
    (hist.calls > 0 /\ hist.pre_empty /\ ~hist.init) =>
        \A d1 \in hist.dates : \A d2 \in hist.dates :
            d1 < d2 => d2 - d1 >= hist.spacing

\* C27: no new_points panics on its display width: for every width of
\* at least one pixel, those below 200 included, min_time_spacing is
\* computed without a division by zero.
C27_NarrowWidthNoPanic == ~(status = "panic" /\ hist.width < PxPerBucket)

\* The coalescing tests of one iteration, the cursor being lts before the
\* first of the events, whose times are given in the order of the visits:
\* at each test the cursor is not earlier than the time of the event.
RECURSIVE NoUnderflow(_, _, _)
NoUnderflow(lts, times, spacing) ==
    IF times = << >> THEN TRUE
    ELSE /\ \A last \in lts : last >= Head(times)
         /\ NoUnderflow(Adjust(lts, Head(times), spacing).lts, Tail(times), spacing)

C29_InitBucket ==
    DOMAIN map = {} =>
        \A width \in Widths :
            LET before == get_allocs(TRUE, width, "iter", 0)
                with   == get_allocs(TRUE, width, "none", 0)
                none   == get_allocs(FALSE, width, "none", 0)
            IN  /\ before.map = [d \in {start_time} |->
                                   PointValNew(<<INIT_SIZE_VALUE, INIT_SIZE_VALUE>>)]
                /\ start_time \in DOMAIN with.map
                /\ DOMAIN none.map # {} => none.births \cup none.deaths # {}

\* A new_points with init on an empty map accumulated a birth and has
\* the bucket of the start time next to the bucket of the birth.
C29_Witness ==
    /\ status = "ok"
    /\ hist.init /\ hist.pre_empty
    /\ hist.batch_new # {}
    /\ start_time \in hist.dates
    /\ Cardinality(hist.dates) >= 2

\* C30: the closure of iter_dead_since leaves everything as it is on a
\* notification with no uid (no bucket, last_time_stamp and new_stuff
\* untouched), and a get_allocs that sees only such notifications
\* returns Ok with the cursor and the map unchanged.
C30_EmptyDeathSkipped ==
    \A width \in Widths :
        LET spacing == MinTimeSpacing(current_time, width)
            news    == iter_new_since(timestamp)
            deads   == iter_dead_since(timestamp)
            st      == [map |-> map, lts |-> CursorAtStart(current_time),
                        new_stuff |-> FALSE, births |-> {}, deaths |-> {}]
            r       == get_allocs(FALSE, width, "none", 0)
        IN  /\ \A i \in 1..Len(deads) :
                  deads[i].uids = {} => VisitDead(st, deads[i], spacing) = st
            /\ (news = << >> /\ deads # << >> /\ \A i \in 1..Len(deads) : deads[i].uids = {})
                  => (r.ok /\ r.timestamp = timestamp /\ r.map = map)

\* A new_points whose only event was a notification with no uid.
C30_Witness ==
    /\ status = "ok"
    /\ hist.batch_new = {} /\ hist.batch_dead = {}
    /\ \E t \in empty_tods : t > timestamp /\ t <= hist.pulled_time

\* C31: the points of one generate_points come in non-decreasing date
\* order, and so do the points of two successive new_points put one
\* after the other, as AddPoints appends them: the first point of the
\* later one is not dated before the last point of the earlier one.
C31_DatesOrdered ==
    [][/\ \A i \in 1..(Len(points') - 1) : points'[i].key <= points'[i + 1].key
       /\ (points # << >> /\ points' # << >> /\ hist'.calls = hist.calls + 1)
             => points[Len(points)].key <= points'[1].key]_vars

\* Sum of the values vals gives to lines, in the arithmetic of the sizes
\* (a value below zero stands for the wrapped u32, so the sum is taken
\* modulo 2^32).
RECURSIVE SumLines(_, _)
SumLines(vals, lines) ==
    IF lines = {} THEN 0
    ELSE LET l == CHOOSE x \in lines : TRUE
         IN  vals[l] + SumLines(vals, lines \ {l})

C33_NoFalsePositive ==
    (Applied /\ label_out.bool = (label_in.kind = "Contain")) =>
        Backtrack(label_in.specs, label_in.labels)

\* Specs with a wildcard before a concrete spec accepted labels of which
\* the first was skipped.
C33_Witness ==
    /\ Contained /\ label_out.bool
    /\ Len(label_in.specs) >= 2 /\ Len(label_in.labels) >= 2
    /\ label_in.specs[1] = Anything
    /\ label_in.specs[2] # Anything
    /\ ~LabelSpecApply(label_in.specs[2], label_in.labels[1])

\* C34: update(Kind(k)) returns Ok; with k other than the kind of the
\* filter it returns true and leaves the filter with kind k and the same
\* specs, with k the kind of the filter it returns false and leaves the
\* filter as it was.
C34_UpdateKind ==
    (label_in.op = "update_kind" /\ label_out.tag # "none") =>
        /\ label_out.tag = "ok"
        /\ label_out.bool = (label_in.nu_kind # label_in.kind)
        /\ label_out.kind = label_in.nu_kind
        /\ label_out.specs = label_in.specs

\* C35: insert(index, spec) with a spec that is not empty leaves the
\* specs one longer, spec at index between the specs that were before
\* index and those that were at index and after; with the empty value it
\* leaves the specs without the one that was at index.
C35_Insert ==
    (label_in.op = "insert" /\ label_out.tag # "none") =>
        LET S == label_in.specs
            i == label_in.index
        IN  IF is_empty(label_in.spec)
            THEN i < Len(S) => (label_out.tag = "ok" /\ label_out.specs = VecRemove(S, i))
            ELSE i <= Len(S) =>
                    (label_out.tag = "ok" /\ label_out.specs = VecInsert(S, i, label_in.spec))

\* The fields of the Filters value after the step.
SelfNext == [catch_all |-> catch_all', filters |-> filters', deleted |-> deleted']

C37_RevertClears ==
    \A ca \in AnyCatchAll, fs \in AnyFilterMap :
        LET r == server_update(Self, [tag |-> "Revert", catch_all |-> ca, filters |-> fs])
        IN  /\ r.ok
            /\ r.self.catch_all = ca
            /\ r.self.filters = fs
            /\ edited(r.self) =>
                  \/ ca.edited
                  \/ \E u \in DOMAIN fs : fs[u].edited \/ fs[u].spec.edited

\* C38: update_specs given a specification for a uid that is not
\* registered returns an error and leaves the catch-all and every filter
\* as they were; otherwise it returns Ok, replaces the given
\* specifications and no other, with their edited flag cleared, and
\* sends one refresh-filters message.
C38_UpdateSpecs ==
    \A ca \in {{}} \cup {{c} : c \in AnyCatchAll}, specs \in AnySpecMap :
        LET r == update_specs(Self, ca, specs)
        IN  IF DOMAIN specs \ DOMAIN filters # {}
            THEN ~r.ok /\ r.self = Self /\ r.emit = << >>
            ELSE /\ r.ok
                 /\ r.emit = <<RefreshFilters>>
                 /\ r.self.deleted = deleted
                 /\ r.self.catch_all = IF ca = {} THEN catch_all
                                       ELSE SpecUnsetEdited(CHOOSE c \in ca : TRUE)
                 /\ DOMAIN r.self.filters = DOMAIN filters
                 /\ \A u \in DOMAIN filters :
                       /\ r.self.filters[u].edited = filters[u].edited
                       /\ r.self.filters[u].spec =
                             IF u \in DOMAIN specs THEN SpecUnsetEdited(specs[u])
                             ELSE filters[u].spec

\* C39: Removed(uid) applied to the footer as it is: when the tab of the
\* filter uid is the active one the active tab becomes the tab of the
\* catch-all; otherwise the active tab stays and no render is asked for.
C39_RemovedActive ==
    \A u \in FilterUids :
        LET r == FooterUpdate(active, Removed(u))
        IN  IF active = {FilterTab(Filter(u))}
            THEN r.active = {FilterTab(CatchAll)}
            ELSE r.active = active /\ ~r.render

\* C40: at most one tab is active in either footer; toggling a tab that
\* is not active leaves it the only active tab, toggling the active tab
\* leaves no tab active.
C40_OneActiveTab ==
    /\ Cardinality({t \in DOMAIN tabs : tabs[t]}) <= 1
    /\ get_active(tabs) = {t \in DOMAIN tabs : tabs[t]}
    /\ \A t \in DOMAIN tabs :
          {x \in DOMAIN tabs : TabsToggle(tabs, t)[x]} = IF tabs[t] THEN {} ELSE {t}
    /\ Cardinality(active) <= 1
    /\ \A u \in FilterUids :
          LET tab == FilterTab(Filter(u))
          IN  FooterUpdate(active, [msg |-> "toggle_tab", tab |-> tab]).active
                  = IF active = {tab} THEN {} ELSE {tab}

\* The Filters tab is active after the Info tab was, and the tab of a
\* filter is active in the other footer.
C40_Witness ==
    /\ tabs[TabFilters] /\ ~tabs[TabInfo]
    /\ \E u \in FilterUids : active = {FilterTab(Filter(u))}
    /\ res.op = "add_filter"

====
